---- MODULE Spec2Model ----
(***************************************************************************)
(* orbicleaner1.py: the paginated post lister (extract_posts), the post    *)
(* deleter (delete_post) and the form's handlers (on_login, on_select_all, *)
(* on_delete).                                                             *)
(*                                                                         *)
(* Two specifications share the definitions of the lister:                 *)
(*   SpecLister  the while loop of extract_posts, one iteration in three   *)
(*               steps (load the page, run the for loop, page += 1),       *)
(*               against a site that serves any page at each request;      *)
(*   Spec        the form: typing credentials, on_login (with the whole    *)
(*               extract_posts call inside), the checkboxes, on_select_all *)
(*               and on_delete (with every delete_post call inside).       *)
(*                                                                         *)
(* A Python string is a sequence of one-character strings; an optional     *)
(* value (None or a string) is the empty sequence or a one-element one.    *)
(***************************************************************************)
EXTENDS Integers, Sequences, FiniteSets, TLC

\* ---------------------------------------------------------------- bounds
\* listing pages a site serves before it stops serving the container
MaxPages == 3
\* rows on one listing page
MaxRows == 2
\* rows of the listing a login of the form scrapes
MaxListing == 3
\* browser sessions the form creates
MaxSessions == 2

\* --------------------------------------------------------------- strings
None == << >>
Some(s) == << s >>

\* Python truthiness of an optional string: None and "" are falsy
Truthy(o) == o /= None /\ o[1] /= << >>

IsSpace(c) == c = " "

RECURSIVE LStrip(_)
LStrip(s) == IF s = << >> THEN << >>
             ELSE IF IsSpace(Head(s)) THEN LStrip(Tail(s)) ELSE s

RECURSIVE RStrip(_)
RStrip(s) == IF s = << >> THEN << >>
             ELSE IF IsSpace(s[Len(s)]) THEN RStrip(SubSeq(s, 1, Len(s) - 1)) ELSE s

\* str.strip()
Strip(s) == RStrip(LStrip(s))

\* str.split("/"): the segments between the slashes, "" included
RECURSIVE Split(_)
Split(s) == IF s = << >> THEN << << >> >>
            ELSE LET rest == Split(Tail(s))
                 IN  IF Head(s) = "/" THEN << << >> >> \o rest
                     ELSE << << Head(s) >> \o Head(rest) >> \o Tail(rest)

\* .split("/")[-1]
LastSegment(s) == Split(s)[Len(Split(s))]

\* "회원에 의해 삭제된 글입니다.", shortened to three characters, the blank kept
Sentinel == << "d", " ", "g" >>

\* ------------------------------------------------------------ the site
\* One <li> of ul.post-list as the driver shows it: whether it has a p.title
\* and that element's text, whether it has an <a> and that element's href
\* attribute (None when the attribute is missing), and whether reading it
\* raises some other WebDriver exception (a stale element).
MkRow(te, tx, an, hr, st) ==
    [title_el |-> te, text |-> tx, anchor |-> an, href |-> hr, stale |-> st]

RowA         == MkRow(TRUE, << "a" >>, TRUE, Some(<< "o", "/", "1" >>), FALSE)
RowB         == MkRow(TRUE, << " ", "b" >>, TRUE, Some(<< "/", "2" >>), FALSE)
RowDeleted   == MkRow(TRUE, Sentinel, TRUE, Some(<< "/", "3" >>), FALSE)
RowSlash     == MkRow(TRUE, << "a" >>, TRUE, Some(<< "/", "1", "/" >>), FALSE)
RowBlank     == MkRow(TRUE, << " " >>, TRUE, Some(<< "/", "1" >>), FALSE)
RowNoTitleEl == MkRow(FALSE, << >>, TRUE, Some(<< "/", "2" >>), FALSE)
RowNoAnchor  == MkRow(TRUE, << "a" >>, FALSE, None, FALSE)
RowNoHref    == MkRow(TRUE, << "a" >>, TRUE, None, FALSE)
RowStale     == MkRow(TRUE, << "a" >>, TRUE, Some(<< "/", "1" >>), TRUE)

Rows == { RowA, RowB, RowDeleted, RowSlash, RowBlank,
          RowNoTitleEl, RowNoAnchor, RowNoHref, RowStale }

SeqsUpTo(S, n) == UNION { [1..m -> S] : m \in 0..n }

\* what find_elements("ul.post-list > li") can return
PageContents == SeqsUpTo(Rows, MaxRows)

\* ------------------------------------------------------- extract_posts
\* title_element.text.strip() if title_element.text.strip() else None
TitleOf(row) == IF Strip(row.text) /= << >> THEN Some(Strip(row.text)) ELSE None

\* ....get_attribute("href").split("/")[-1] if ....get_attribute("href") else None
HrefOf(row) == IF Truthy(row.href) THEN Some(LastSegment(row.href[1])) ELSE None

\* RowStep without the `continue` for the sentinel title
RowStepKeepsDeleted(posts, row) ==
    IF row.stale THEN [posts |-> posts, returned |-> FALSE]
    ELSE IF ~row.title_el THEN [posts |-> posts, returned |-> TRUE]
    ELSE IF ~row.anchor THEN [posts |-> posts, returned |-> TRUE]
    ELSE IF Truthy(TitleOf(row)) /\ Truthy(HrefOf(row))
         THEN [posts |-> Append(posts, [title |-> TitleOf(row)[1], href |-> HrefOf(row)[1]]),
               returned |-> FALSE]
    ELSE [posts |-> posts, returned |-> FALSE]

\* RowStep with the missing title element caught by the general handler
RowStepSkipsMissingTitle(posts, row) ==
    IF row.stale THEN [posts |-> posts, returned |-> FALSE]
    ELSE IF ~row.title_el THEN [posts |-> posts, returned |-> FALSE]
    ELSE IF ~row.anchor THEN [posts |-> posts, returned |-> TRUE]
    ELSE IF TitleOf(row) = Some(Sentinel) THEN [posts |-> posts, returned |-> FALSE]
    ELSE IF Truthy(TitleOf(row)) /\ Truthy(HrefOf(row))
         THEN [posts |-> Append(posts, [title |-> TitleOf(row)[1], href |-> HrefOf(row)[1]]),
               returned |-> FALSE]
    ELSE [posts |-> posts, returned |-> FALSE]

\* The body of `for post in post_elements` for one row: the posts after it and
\* whether the function returned (the NoSuchElementException handler).
RowStep(posts, row) ==
    IF row.stale THEN [posts |-> posts, returned |-> FALSE]
    ELSE IF ~row.title_el THEN [posts |-> posts, returned |-> TRUE]
    ELSE IF ~row.anchor THEN [posts |-> posts, returned |-> TRUE]
    ELSE IF TitleOf(row) = Some(Sentinel) THEN [posts |-> posts, returned |-> FALSE]
    ELSE IF Truthy(TitleOf(row)) /\ Truthy(HrefOf(row))
         THEN [posts |-> Append(posts, [title |-> TitleOf(row)[1], href |-> HrefOf(row)[1]]),
               returned |-> FALSE]
    ELSE [posts |-> posts, returned |-> FALSE]

\* The whole for loop over one page's rows.
RECURSIVE ForRows(_, _)
ForRows(posts, rows) ==
    IF rows = << >> THEN [posts |-> posts, returned |-> FALSE]
    ELSE LET r == RowStep(posts, Head(rows))
         IN  IF r.returned THEN r ELSE ForRows(r.posts, Tail(rows))

\* extract_posts against a site that serves the pages `pages` and then fails to
\* load or shows no listing container: the list returned.
RECURSIVE ExtractFrom(_, _, _)
ExtractFrom(pages, page, posts) ==
    IF page > Len(pages) THEN posts
    ELSE LET r == ForRows(posts, pages[page])
         IN  IF r.returned THEN r.posts ELSE ExtractFrom(pages, page + 1, r.posts)

extract_posts(pages) == ExtractFrom(pages, 1, << >>)

VARIABLES
    \* extract_posts, step by step (SpecLister)
    posts, page, post_elements, lister_pc, stop, empty_pages,
    \* the form (Spec)
    username_entry, password_entry, login_frame_shown, result_frame_shown,
    driver, posts_data, post_checks, select_all_var, fills,
    \* the latest user action, and the dialogs it showed, the driver calls it
    \* made and the delete_post calls it made
    last, dialogs, browser_log, deleter_calls

lister_vars == << posts, page, post_elements, lister_pc, stop, empty_pages >>
form_vars == << username_entry, password_entry, login_frame_shown, result_frame_shown,
                driver, posts_data, post_checks, select_all_var, fills,
                last, dialogs, browser_log, deleter_calls >>
vars == << lister_vars, form_vars >>

ListerInit ==
    /\ posts = << >>
    /\ page = 1
    /\ post_elements = << >>
    /\ lister_pc = "load"
    /\ stop = "none"
    /\ empty_pages = 0

FormInit ==
    /\ username_entry = << >>
    /\ password_entry = << >>
    /\ login_frame_shown = TRUE
    /\ result_frame_shown = FALSE
    /\ driver = 0
    /\ posts_data = << >>
    /\ post_checks = << >>
    /\ select_all_var = FALSE
    /\ fills = 0
    /\ last = "none"
    /\ dialogs = << >>
    /\ browser_log = << >>
    /\ deleter_calls = << >>

Init == ListerInit /\ FormInit

\* driver.get(".../my/post?page=N") throws: break
LoadThrows ==
    /\ lister_pc = "load"
    /\ lister_pc' = "done"
    /\ stop' = "load_error"
    /\ UNCHANGED << posts, page, post_elements, empty_pages >>
    /\ UNCHANGED form_vars

\* the page loads without a post-list element: break
ContainerAbsent ==
    /\ lister_pc = "load"
    /\ lister_pc' = "done"
    /\ stop' = "no_container"
    /\ UNCHANGED << posts, page, post_elements, empty_pages >>
    /\ UNCHANGED form_vars

\* the page loads with the container; find_elements returns its rows
FindElements ==
    /\ lister_pc = "load"
    /\ page <= MaxPages
    /\ \E rows \in PageContents : post_elements' = rows
    /\ lister_pc' = "rows"
    /\ UNCHANGED << posts, page, stop, empty_pages >>
    /\ UNCHANGED form_vars

\* ProcessRows with `if not post_elements: break`
ProcessRowsStopsOnEmpty ==
    /\ lister_pc = "rows"
    /\ LET r == ForRows(posts, post_elements)
       IN  /\ posts' = r.posts
           /\ lister_pc' = IF r.returned \/ post_elements = << >> THEN "done" ELSE "next"
           /\ stop' = IF r.returned THEN "no_such_element"
                      ELSE IF post_elements = << >> THEN "no_container" ELSE stop
    /\ empty_pages' = IF post_elements = << >> THEN empty_pages + 1 ELSE empty_pages
    /\ UNCHANGED << page, post_elements >>
    /\ UNCHANGED form_vars

\* the for loop over post_elements
ProcessRows ==
    /\ lister_pc = "rows"
    /\ LET r == ForRows(posts, post_elements)
       IN  /\ posts' = r.posts
           /\ lister_pc' = IF r.returned THEN "done" ELSE "next"
           /\ stop' = IF r.returned THEN "no_such_element" ELSE stop
    /\ empty_pages' = IF post_elements = << >> THEN empty_pages + 1 ELSE empty_pages
    /\ UNCHANGED << page, post_elements >>
    /\ UNCHANGED form_vars

\* page += 1 and back to the head of the while loop; post_elements is dead
\* until the next find_elements assigns it
NextPage ==
    /\ lister_pc = "next"
    /\ page' = page + 1
    /\ post_elements' = << >>
    /\ lister_pc' = "load"
    /\ UNCHANGED << posts, stop, empty_pages >>
    /\ UNCHANGED form_vars

ListerNext ==
    \/ LoadThrows
    \/ ContainerAbsent
    \/ FindElements
    \/ ProcessRows
    \/ NextPage

SpecLister == Init /\ [][ListerNext]_vars

\* ------------------------------------------------------------ delete_post
\* What the site does at one delete_post call: a driver call raises, the delete
\* button never shows, or it is clicked and the alert shows or does not.
DeleteOutcomes == { "raises", "no_button", "alert", "no_alert" }

\* delete_post without its try/except
delete_post_propagates(drv, post_number, outcome) ==
    [driver  |-> drv,
     href    |-> post_number,
     result  |-> IF drv = 0 \/ outcome = "raises" THEN "failed"
                 ELSE IF outcome = "no_button" THEN "no_button"
                 ELSE "clicked",
     raised  |-> (drv = 0 \/ outcome = "raises")]

\* delete_post(driver, post_number) when the site does `outcome`: how the call
\* ended (an exception caught and logged, the early return without the button,
\* or the click, after which the alert is accepted or a warning logged), and
\* whether an exception left the function. driver 0 is None, whose .get raises
\* AttributeError inside the try.
delete_post(drv, post_number, outcome) ==
    [driver  |-> drv,
     href    |-> post_number,
     result  |-> IF drv = 0 \/ outcome = "raises" THEN "failed"
                 ELSE IF outcome = "no_button" THEN "no_button"
                 ELSE "clicked",
     raised  |-> FALSE]

\* ---------------------------------------------------------------- the form
\* what an entry can hold
EntryTexts == { << >>, << " " >>, << " ", "u" >> }

\* the listings a login scrapes: no listing page at all, or one page
Listings == { << >> } \cup { << rows >> : rows \in SeqsUpTo(Rows, MaxListing) }

\* what the site does at one login, after the credentials check
LoginOutcomes == { "chrome_raises", "get_raises", "no_username_field", "no_password_field",
                   "submit_raises", "no_post_list", "find_elements_raises", "listed" }

\* Blank without the .strip()
BlankUnstripped(entry) == entry = << >>

\* not username (not pw), after .get().strip()
Blank(entry) == Strip(entry) = << >>

\* the infos of the checked entries, in the order of post_checks.items()
RECURSIVE Selected(_)
Selected(checks) ==
    IF checks = << >> THEN << >>
    ELSE (IF Head(checks).var THEN << Head(checks).info >> ELSE << >>)
         \o Selected(Tail(checks))

Infos(checks) == [i \in 1..Len(checks) |-> checks[i].info]

\* for idx, post in enumerate(posts_data): post_checks[idx] = (BooleanVar(), post)
\* (entries of the dict beyond the new list stay)
Populate(checks, data) ==
    [i \in 1..(IF Len(checks) > Len(data) THEN Len(checks) ELSE Len(data)) |->
        IF i <= Len(data) THEN [var |-> FALSE, info |-> data[i]] ELSE checks[i]]

\* SetAll with var.set(not var.get())
SetAllInverts(checks, do_select) ==
    [i \in 1..Len(checks) |-> [checks[i] EXCEPT !.var = ~checks[i].var]]

\* for idx, (var, info) in post_checks.items(): var.set(do_select)
SetAll(checks, do_select) ==
    [i \in 1..Len(checks) |-> [checks[i] EXCEPT !.var = do_select]]

\* the keys typed into the two entries of the login frame
EditEntries ==
    /\ login_frame_shown
    /\ \E u \in EntryTexts, p \in EntryTexts :
          /\ username_entry' = u
          /\ password_entry' = p
    /\ last' = "edit"
    /\ UNCHANGED lister_vars
    /\ dialogs' = << >>
    /\ browser_log' = << >>
    /\ deleter_calls' = << >>
    /\ UNCHANGED << login_frame_shown, result_frame_shown, driver, posts_data,
                    post_checks, select_all_var, fills >>

\* ShowPosts without login_frame.pack_forget()
ShowPostsKeepsLogin(pages) ==
    /\ posts_data' = extract_posts(pages)
    /\ IF extract_posts(pages) = << >>
       THEN /\ dialogs' = << "showinfo:no_posts" >>
            /\ UNCHANGED << login_frame_shown, result_frame_shown, post_checks, fills >>
       ELSE /\ dialogs' = << >>
            /\ login_frame_shown' = login_frame_shown
            /\ result_frame_shown' = TRUE
            /\ post_checks' = Populate(post_checks, extract_posts(pages))
            /\ fills' = fills + 1

\* on_login from `posts_data = extract_posts(driver)` on, the listing scraped
\* being `pages`
ShowPosts(pages) ==
    /\ posts_data' = extract_posts(pages)
    /\ IF extract_posts(pages) = << >>
       THEN /\ dialogs' = << "showinfo:no_posts" >>
            /\ UNCHANGED << login_frame_shown, result_frame_shown, post_checks, fills >>
       ELSE /\ dialogs' = << >>
            /\ login_frame_shown' = FALSE
            /\ result_frame_shown' = TRUE
            /\ post_checks' = Populate(post_checks, extract_posts(pages))
            /\ fills' = fills + 1

\* the login button, which is in the login frame
on_login ==
    /\ login_frame_shown
    /\ last' = "on_login"
    /\ UNCHANGED lister_vars
    /\ deleter_calls' = << >>
    /\ UNCHANGED << username_entry, password_entry, select_all_var >>
    /\ IF Blank(username_entry) \/ Blank(password_entry)
       THEN /\ dialogs' = << "showerror:credentials" >>
            /\ browser_log' = << >>
            /\ UNCHANGED << login_frame_shown, result_frame_shown, driver, posts_data,
                            post_checks, fills >>
       ELSE \E outcome \in LoginOutcomes :
              IF outcome = "chrome_raises"
              THEN /\ dialogs' = << "showerror:exception" >>
                   /\ browser_log' = << "Chrome" >>
                   /\ UNCHANGED << login_frame_shown, result_frame_shown, driver,
                                   posts_data, post_checks, fills >>
              ELSE /\ driver < MaxSessions
                   /\ driver' = driver + 1
                   /\ browser_log' =
                        << "Chrome", "get:login" >> \o
                        (IF outcome \in { "find_elements_raises", "listed" }
                         THEN << "submit", "get:my/post" >>
                         ELSE IF outcome \in { "submit_raises", "no_post_list" }
                         THEN << "submit" >> ELSE << >>)
                   /\ IF outcome = "listed"
                      THEN \E pages \in Listings : ShowPosts(pages)
                      ELSE /\ dialogs' = << IF outcome = "no_username_field"
                                            THEN "showerror:no_username_field"
                                            ELSE IF outcome = "no_password_field"
                                            THEN "showerror:no_password_field"
                                            ELSE IF outcome = "no_post_list"
                                            THEN "showerror:login_failed"
                                            ELSE "showerror:exception" >>
                           /\ UNCHANGED << login_frame_shown, result_frame_shown,
                                           posts_data, post_checks, fills >>

\* one checkbox of the list, which is in the result frame
ToggleCheck ==
    /\ result_frame_shown
    /\ \E i \in 1..Len(post_checks) :
          post_checks' = [post_checks EXCEPT ![i].var = ~post_checks[i].var]
    /\ last' = "toggle"
    /\ UNCHANGED lister_vars
    /\ dialogs' = << >>
    /\ browser_log' = << >>
    /\ deleter_calls' = << >>
    /\ UNCHANGED << username_entry, password_entry, login_frame_shown, result_frame_shown,
                    driver, posts_data, select_all_var, fills >>

\* the select-all checkbox, which is in the result frame: the click flips
\* select_all_var and then calls on_select_all
on_select_all ==
    /\ result_frame_shown
    /\ select_all_var' = ~select_all_var
    /\ post_checks' = SetAll(post_checks, ~select_all_var)
    /\ last' = "on_select_all"
    /\ UNCHANGED lister_vars
    /\ dialogs' = << >>
    /\ browser_log' = << >>
    /\ deleter_calls' = << >>
    /\ UNCHANGED << username_entry, password_entry, login_frame_shown, result_frame_shown,
                    driver, posts_data, fills >>

\* for post_info in selected_posts: delete_post(driver, post_info["href"]);
\* an exception that leaves delete_post leaves the loop and the handler
RECURSIVE Sweep(_, _, _)
Sweep(drv, selected, outcomes) ==
    IF selected = << >> THEN [calls |-> << >>, raised |-> FALSE]
    ELSE LET call == delete_post(drv, Head(selected).href, Head(outcomes))
         IN  IF call.raised THEN [calls |-> << call >>, raised |-> TRUE]
             ELSE LET rest == Sweep(drv, Tail(selected), Tail(outcomes))
                  IN  [calls |-> << call >> \o rest.calls, raised |-> rest.raised]

\* DeleteSelected without `if not confirm: return`
DeleteSelectedUnconfirmed(drv, selected, confirm, outcomes) ==
    IF selected = << >>
    THEN [dialogs |-> << "showinfo:select" >>, calls |-> << >>]
    ELSE LET sweep == Sweep(drv, selected, outcomes)
         IN  [dialogs |-> << IF confirm THEN "askyesno:yes" ELSE "askyesno:no" >> \o
                          (IF sweep.raised THEN << >> ELSE << "showinfo:done" >>),
              calls |-> sweep.calls]

\* DeleteSelected without `if not selected_posts: ... return`
DeleteSelectedAsksAnyway(drv, selected, confirm, outcomes) ==
    IF ~confirm
    THEN [dialogs |-> << "askyesno:no" >>, calls |-> << >>]
    ELSE LET sweep == Sweep(drv, selected, outcomes)
         IN  [dialogs |-> << "askyesno:yes" >> \o
                          (IF sweep.raised THEN << >> ELSE << "showinfo:done" >>),
              calls |-> sweep.calls]

\* on_delete over the checked posts `selected`, the user answering `confirm` to
\* askyesno and the site doing outcomes[i] at the i-th delete_post: the dialogs
\* shown and the delete_post calls made
DeleteSelected(drv, selected, confirm, outcomes) ==
    IF selected = << >>
    THEN [dialogs |-> << "showinfo:select" >>, calls |-> << >>]
    ELSE IF ~confirm
    THEN [dialogs |-> << "askyesno:no" >>, calls |-> << >>]
    ELSE LET sweep == Sweep(drv, selected, outcomes)
         IN  [dialogs |-> << "askyesno:yes" >> \o
                          (IF sweep.raised THEN << >> ELSE << "showinfo:done" >>),
              calls |-> sweep.calls]

\* the delete button, which is in the root window (what the site would do is
\* drawn only when the user confirms: no call is made otherwise)
on_delete ==
    /\ \E confirm \in BOOLEAN :
       \E outcomes \in IF confirm THEN [1..Len(Selected(post_checks)) -> DeleteOutcomes]
                       ELSE { [i \in 1..Len(Selected(post_checks)) |-> "alert"] } :
          LET r == DeleteSelected(driver, Selected(post_checks), confirm, outcomes)
          IN  /\ dialogs' = r.dialogs
              /\ deleter_calls' = r.calls
    /\ last' = "on_delete"
    /\ UNCHANGED lister_vars
    /\ browser_log' = << >>
    /\ UNCHANGED << username_entry, password_entry, login_frame_shown, result_frame_shown,
                    driver, posts_data, post_checks, select_all_var, fills >>

Next ==
    \/ EditEntries
    \/ on_login
    \/ ToggleCheck
    \/ on_select_all
    \/ on_delete

Spec == Init /\ [][Next]_vars

\* ------------------------------------------------------ the lister's claims
PostA == [title |-> << "a" >>, href |-> << "1" >>]
PostB == [title |-> << "b" >>, href |-> << "2" >>]

\* the row can be read, and has a title element with a title text
HasTitle(row) == ~row.stale /\ row.title_el /\ Strip(row.text) /= << >>
\* the row has an anchor with a non-empty href
HasHref(row) == row.anchor /\ row.href /= None /\ row.href[1] /= << >>
\* the href's last path segment, the post identifier, is not empty
HasIdentifier(row) == HasHref(row) /\ LastSegment(row.href[1]) /= << >>

IsDeletedRow(row) == Strip(row.text) = Sentinel

\* {title, last path segment of href} of the rows that are not the sentinel,
\* in row order
RECURSIVE ListedPosts(_)
ListedPosts(rows) ==
    IF rows = << >> THEN << >>
    ELSE (IF IsDeletedRow(Head(rows)) THEN << >>
          ELSE << [title |-> Strip(Head(rows).text),
                   href |-> LastSegment(Head(rows).href[1])] >>)
         \o ListedPosts(Tail(rows))

\* posts changes in the for loop only: what the loop returns at a break is
\* what the pages before it left
OnlyRowsAppend == lister_pc /= "rows" => posts' = posts

\* C1 (as stated): a page whose rows all have a title element, a non-empty
\* title text and a non-empty anchor href appends exactly its non-sentinel rows
\* as {title, last path segment of href}, in row order, after the posts of the
\* pages before it, and pagination goes on; so the list returned at the page
\* without the container is the concatenation over all pages.
C1_AsStated ==
    [][ /\ OnlyRowsAppend
        /\ (lister_pc = "rows"
            /\ \A i \in 1..Len(post_elements) :
                  HasTitle(post_elements[i]) /\ HasHref(post_elements[i]))
             => /\ posts' = posts \o ListedPosts(post_elements)
                /\ lister_pc' = "next" ]_vars

\* C1 (amended): the same, for pages whose rows also have a non-empty last path
\* segment in their href.
C1_PageOrder ==
    [][ /\ OnlyRowsAppend
        /\ (lister_pc = "rows"
            /\ \A i \in 1..Len(post_elements) :
                  HasTitle(post_elements[i]) /\ HasIdentifier(post_elements[i]))
             => /\ posts' = posts \o ListedPosts(post_elements)
                /\ lister_pc' = "next" ]_vars

\* page 1 listed a; page 2, a sentinel row and then b, has been processed
C1_Witness ==
    /\ lister_pc = "next"
    /\ page = 2
    /\ post_elements = << RowDeleted, RowB >>
    /\ posts = << PostA, PostB >>

\* the row raises NoSuchElementException: it can be read and lacks the title
\* element or the anchor
RaisesNoSuchElement(row) == ~row.stale /\ (~row.title_el \/ ~row.anchor)

\* the position of the first row of the page that raises it, 0 when none does
FirstRaising(rows) ==
    IF \E i \in 1..Len(rows) : RaisesNoSuchElement(rows[i])
    THEN CHOOSE i \in 1..Len(rows) :
            /\ RaisesNoSuchElement(rows[i])
            /\ \A j \in 1..(i - 1) : ~RaisesNoSuchElement(rows[j])
    ELSE 0

\* the for loop meets a row without the title element
MeetsMissingTitle(rows) == FirstRaising(rows) > 0 /\ ~rows[FirstRaising(rows)].title_el

\* the row yields a post: it has a title that is not the sentinel, and an identifier
YieldsPost(row) == HasTitle(row) /\ HasIdentifier(row) /\ ~IsDeletedRow(row)

\* the posts of the rows that yield one, in row order
RECURSIVE YieldedPosts(_)
YieldedPosts(rows) ==
    IF rows = << >> THEN << >>
    ELSE (IF YieldsPost(Head(rows)) THEN ListedPosts(<< Head(rows) >>) ELSE << >>)
         \o YieldedPosts(Tail(rows))

\* C2 (as stated): when the for loop of page N meets a row without the title
\* element, extract_posts returns at once, no further page is requested, and the
\* list returned is the list as it was before page N.
C2_AsStated ==
    [][ (lister_pc = "rows" /\ MeetsMissingTitle(post_elements))
          => /\ lister_pc' = "done"
             /\ stop' = "no_such_element"
             /\ page' = page
             /\ posts' = posts ]_vars

\* C2 (amended): ... and the list returned is the list as it was before page N
\* followed by the posts of the rows of page N that precede that row.
C2_StopsAtMissingTitle ==
    [][ (lister_pc = "rows" /\ MeetsMissingTitle(post_elements))
          => /\ lister_pc' = "done"
             /\ stop' = "no_such_element"
             /\ page' = page
             /\ posts' = posts \o YieldedPosts(SubSeq(post_elements, 1,
                                                      FirstRaising(post_elements) - 1)) ]_vars

\* page 1 listed b; page 2 had a and then a row without the title element
C2_Witness ==
    /\ lister_pc = "done"
    /\ stop = "no_such_element"
    /\ page = 2
    /\ post_elements = << RowA, RowNoTitleEl >>
    /\ posts = << PostB, PostA >>

\* C3: a page with the container and zero rows leaves the list as it is and
\* goes on to request the next page; no step ever takes a post out of the
\* list, and a row that yields a post on a page processed to its end is in it;
\* pagination ends only at a load error, an absent container, or a row that
\* raises NoSuchElementException.
C3_EmptyPageContinues ==
    [][ /\ (lister_pc = "rows" /\ post_elements = << >>)
             => (lister_pc' = "next" /\ posts' = posts)
        /\ lister_pc = "next"
             => (lister_pc' = "load" /\ page' = page + 1 /\ posts' = posts)
        /\ (Len(posts) <= Len(posts') /\ SubSeq(posts', 1, Len(posts)) = posts)
        /\ (lister_pc = "rows" /\ lister_pc' = "next")
             => \A i \in 1..Len(post_elements) :
                   YieldsPost(post_elements[i])
                     => \E k \in (Len(posts) + 1)..Len(posts') :
                           << posts'[k] >> = ListedPosts(<< post_elements[i] >>)
        /\ lister_pc' = "done"
             => \/ lister_pc = "load" /\ stop' \in { "load_error", "no_container" }
                \/ /\ lister_pc = "rows"
                   /\ stop' = "no_such_element"
                   /\ FirstRaising(post_elements) > 0 ]_vars

\* pages 1 and 2 were empty, page 3 had one valid row, and its post is listed
C3_Witness ==
    /\ lister_pc = "next"
    /\ page = 3
    /\ empty_pages = 2
    /\ post_elements = << RowA >>
    /\ posts = << PostA >>

\* the row has no title (its title text is empty once stripped) or no
\* identifier (no anchor, or an anchor without href)
LacksTitleOrIdentifier(row) ==
    /\ ~row.stale
    /\ row.title_el
    /\ (Strip(row.text) = << >> \/ ~row.anchor \/ row.href = None)

\* C9: a page whose rows either yield a post or lack a title or an identifier
\* is processed to its end: the rows that lack one add nothing, the others are
\* listed, and pagination goes on.
C9_SkippedSilently ==
    [][ (lister_pc = "rows"
         /\ \A i \in 1..Len(post_elements) :
               YieldsPost(post_elements[i]) \/ LacksTitleOrIdentifier(post_elements[i]))
          => /\ lister_pc' = "next"
             /\ posts' = posts \o YieldedPosts(post_elements) ]_vars

\* -------------------------------------------------------- the form's claims
\* C4: once the user has confirmed, delete_post has been called exactly once
\* for each checked post, in the order of the list, whatever the earlier calls
\* met, no call let an exception out, and the completion notice is the one
\* dialog after the confirmation.
C4_SweepAttemptsAll ==
    (last = "on_delete" /\ dialogs /= << >> /\ dialogs[1] = "askyesno:yes")
      => /\ Len(deleter_calls) = Len(Selected(post_checks))
         /\ \A i \in 1..Len(deleter_calls) :
               /\ deleter_calls[i].href = Selected(post_checks)[i].href
               /\ ~deleter_calls[i].raised
         /\ dialogs = << "askyesno:yes", "showinfo:done" >>

\* a, b and a were checked; the call for b met an exception, the third found
\* no delete button, and all three were made
C4_Witness ==
    /\ last = "on_delete"
    /\ dialogs = << "askyesno:yes", "showinfo:done" >>
    /\ Len(deleter_calls) = 3
    /\ deleter_calls[1] = [driver |-> 1, href |-> << "1" >>, result |-> "clicked", raised |-> FALSE]
    /\ deleter_calls[2] = [driver |-> 1, href |-> << "2" >>, result |-> "failed", raised |-> FALSE]
    /\ deleter_calls[3] = [driver |-> 1, href |-> << "1" >>, result |-> "no_button", raised |-> FALSE]

\* C5: delete_post is called only by an on_delete whose confirmation was
\* answered yes, and the confirmation is asked only with a post checked; when
\* the user answers no, no call is made, no other dialog is shown, and the
\* checkboxes and the post list stay as they were.
C5_ConfirmedFirst ==
    /\ [](deleter_calls /= << >>
            => /\ last = "on_delete"
               /\ dialogs /= << >>
               /\ dialogs[1] = "askyesno:yes")
    /\ []((dialogs /= << >> /\ dialogs[1] \in { "askyesno:yes", "askyesno:no" })
            => (last = "on_delete" /\ Selected(post_checks) /= << >>))
    /\ [][ (last' = "on_delete" /\ \E i \in 1..Len(dialogs') : dialogs'[i] = "askyesno:no")
             => /\ dialogs' = << "askyesno:no" >>
                /\ deleter_calls' = << >>
                /\ post_checks' = post_checks
                /\ posts_data' = posts_data ]_vars

\* two posts are checked and the user has declined
C5_Witness ==
    /\ last = "on_delete"
    /\ dialogs = << "askyesno:no" >>
    /\ Len(Selected(post_checks)) = 2
    /\ deleter_calls = << >>

\* C6: on_delete with no post checked (before any login too) calls delete_post
\* not once, asks nothing, shows no completion notice, and shows the one
\* informational dialog.
C6_NothingChecked ==
    (last = "on_delete" /\ Selected(post_checks) = << >>)
      => /\ dialogs = << "showinfo:select" >>
         /\ deleter_calls = << >>
         /\ browser_log = << >>

\* the delete button was clicked before any login
C6_Witness ==
    /\ last = "on_delete"
    /\ driver = 0
    /\ post_checks = << >>
    /\ dialogs = << "showinfo:select" >>

\* C7: on_login with a username or a password that is empty once stripped
\* creates no session, makes no driver call, leaves driver, posts_data and
\* post_checks as they were, and shows the validation error.
C7_BlankCredentials ==
    [][ (last' = "on_login"
         /\ (Strip(username_entry) = << >> \/ Strip(password_entry) = << >>))
          => /\ driver' = driver
             /\ browser_log' = << >>
             /\ posts_data' = posts_data
             /\ post_checks' = post_checks
             /\ fills' = fills
             /\ dialogs' = << "showerror:credentials" >> ]_vars

\* a login with a username of one blank, after an earlier attempt whose session
\* is still the driver
C7_Witness ==
    /\ last = "on_login"
    /\ username_entry = << " " >>
    /\ password_entry = << " ", "u" >>
    /\ driver = 1
    /\ dialogs = << "showerror:credentials" >>

\* C8: one on_select_all leaves every flag equal to the master flag, whatever
\* the flags were, and leaves the entries and the post of each as they were.
C8_SelectAll ==
    [][ last' = "on_select_all"
          => /\ Len(post_checks') = Len(post_checks)
             /\ \A i \in 1..Len(post_checks) :
                   /\ post_checks'[i].var = select_all_var'
                   /\ post_checks'[i].info = post_checks[i].info ]_vars

\* three entries, all set by a select-all with the master flag true
C8_Witness ==
    /\ last = "on_select_all"
    /\ select_all_var
    /\ Len(post_checks) = 3
    /\ \A i \in 1..3 : post_checks[i].var

\* C10: post_checks is empty or was filled once, by the login that listed a
\* non-empty posts_data, entry i holding posts_data[i]; every delete_post call
\* is made with a driver and with the href of a post of that list; and a sweep
\* leaves post_checks and posts_data as they were.
C10_FilledOnce ==
    /\ [](/\ fills <= 1
          /\ fills = 0 => post_checks = << >>
          /\ fills = 1 => (/\ posts_data /= << >>
                           /\ Infos(post_checks) = posts_data
                           /\ ~login_frame_shown)
          /\ \A i \in 1..Len(deleter_calls) :
                /\ deleter_calls[i].driver /= 0
                /\ \E k \in 1..Len(posts_data) :
                      posts_data[k].href = deleter_calls[i].href)
    /\ [][ deleter_calls' /= << >>
             => (post_checks' = post_checks /\ posts_data' = posts_data) ]_vars

\* the second login attempt listed two posts; both are checked and a sweep
\* over them has finished
C10_Witness ==
    /\ fills = 1
    /\ driver = 2
    /\ last = "on_delete"
    /\ Len(deleter_calls) = 2
    /\ Len(Selected(post_checks)) = 2

====
